---- MODULE Spec2Model ----
(***************************************************************************)
(* SentimentReturnAnalyzer (src/src/sentiment_analysis.py): one analyzer   *)
(* object whose stages load_data, analyze_sentiment, calculate_returns,    *)
(* merge_data and compute_correlation may be called in any order.          *)
(*                                                                         *)
(* A raw date string is modelled by what the parsers make of it: its       *)
(* class (kind), the calendar day and the time of day it denotes.          *)
(*   "iso"    2021-01-15 09:30:00          (no zone)                       *)
(*   "isotz"  2021-01-15 09:30:00-04:00    (with a UTC offset)             *)
(*   "custom" 01/15/2021 09:30:00 AM       (the fallback format)           *)
(*   "bad"    text no parser accepts, such as "not available"              *)
(* pandas.to_datetime is modelled as pandas 2.x computes it: the format is *)
(* guessed from the first element and applied to all of them; when the     *)
(* first element gives no format every element is parsed on its own.       *)
(* Sentiment polarities are tenths (4 is 0.4); a mean is kept as the pair  *)
(* sum, count and a return as the pair numerator, denominator.             *)
(***************************************************************************)
EXTENDS Integers, Sequences, FiniteSets, TLC

VARIABLES news_file, stock_file, news_df, stock_df, merged_df, out, last, completed

vars == <<news_file, stock_file, news_df, stock_df, merged_df, out, last, completed>>

\* ---- bounds of the model
MaxNews == 3
MaxBars == 2

\* the calendar days of the news and of the price bars, the times of day
Days == {1, 2}
Tods == {0, 1}
Closes == {100, 110, 99}
Stages == {"load_data", "analyze_sentiment", "calculate_returns", "merge_data",
           "compute_correlation"}

None == [none |-> TRUE]

\* ---- cells of a date column: a string (as lines 41-46 leave it, stripped and
\* with runs of blanks collapsed), a timestamp, or not-a-date
Str(k, d, t) == [t |-> "str", kind |-> k, day |-> d, tod |-> t, aware |-> FALSE]
Ts(d, t, a) == [t |-> "ts", kind |-> "-", day |-> d, tod |-> t, aware |-> a]
NaT == [t |-> "NaT", kind |-> "-", day |-> 0, tod |-> 0, aware |-> FALSE]
NaN == <<0, 0>>

isna(c) == c.t = "NaT"

\* ---- helpers on sequences
SeqsUpTo(S, n) == UNION {[1..k -> S] : k \in 0..n}

RECURSIVE SelectIdx(_, _, _)
\* the indices i >= from of s with keep[i], ascending
SelectIdx(keep, n, from) ==
    IF from > n THEN <<>>
    ELSE IF keep[from] THEN <<from>> \o SelectIdx(keep, n, from + 1)
         ELSE SelectIdx(keep, n, from + 1)

\* ---- the stock filter of load_data
\* self.news_df[self.news_df["stock"] == self.stock_symbol]
FilterStock(file) ==
    LET idx == SelectIdx([i \in DOMAIN file |-> file[i].stock = "T"], Len(file), 1)
    IN  [j \in DOMAIN idx |-> file[idx[j]]]

\* ---- pandas.to_datetime(column, errors="coerce")
\* guess_datetime_format on the first element: every class but "bad" has a format
guess_datetime_format(c) == IF c.kind = "bad" THEN "none" ELSE c.kind

\* one string parsed on its own (dateutil)
parse_single(c) ==
    IF c.kind = "bad" THEN NaT ELSE Ts(c.day, c.tod, c.kind = "isotz")

\* one string parsed against the guessed format; a mismatch is coerced to NaT
parse_with_format(c, fmt) ==
    IF c.kind = fmt THEN Ts(c.day, c.tod, c.kind = "isotz") ELSE NaT

DtypeOf(cells) ==
    LET ts == {cells[i] : i \in {j \in DOMAIN cells : ~isna(cells[j])}}
    IN  IF \A c \in ts : ~c.aware THEN "naive"
        ELSE IF \A c \in ts : c.aware THEN "aware"
        ELSE "object"

to_datetime(strs) ==
    IF Len(strs) = 0 THEN <<>>
    ELSE LET fmt == guess_datetime_format(strs[1])
         IN  IF fmt # "none"
             THEN [i \in DOMAIN strs |-> parse_with_format(strs[i], fmt)]
             ELSE [i \in DOMAIN strs |-> parse_single(strs[i])]

\* datetime.strptime(date_str, "%m/%d/%Y %I:%M:%S %p"), NaT on any exception
\* (a value that is not a string makes strptime raise TypeError)
try_parse_custom_date(c) ==
    IF c.t = "str" /\ c.kind = "custom" THEN Ts(c.day, c.tod, FALSE) ELSE NaT

\* Series.dt.tz_localize(None): the wall-clock time without its zone
tz_localize_none(c) == IF c.t = "ts" THEN Ts(c.day, c.tod, FALSE) ELSE c

\* the time of day left in place
normalize_keeps_time(c) == c

\* Series.dt.normalize(): midnight of the same day, the zone kept
normalize(c) == IF c.t = "ts" THEN Ts(c.day, 0, c.aware) ELSE c

\* ---- the data frames
NewsFrame(rows, dtype, sent) == [rows |-> rows, dtype |-> dtype, sentiment |-> sent]
StockFrame(rows, dtype, ret) == [rows |-> rows, dtype |-> dtype, daily_return |-> ret]
MergedFrame(rows) == [rows |-> rows]

Msg(tag, n) == [tag |-> tag, n |-> n, value |-> "none"]
Call(stage, outcome, value) == [stage |-> stage, outcome |-> outcome, value |-> value]

\* ---- the files at news_path and stock_path
News(s, p) == [stock |-> "T", date |-> s, pol |-> p]
Bar(d, c) == [date |-> Str("iso", d, 0), close |-> c]

\* the records of a news file: two headlines of the target stock "T" with the
\* same timestamp, one later the same day, one on another day, one with a
\* zoned date, one in the fallback format, one unparseable, and a record of
\* another stock
NewsRecords ==
    {News(Str("iso", 1, 0), 4), News(Str("iso", 1, 0), -2),
     News(Str("iso", 1, 1), -2), News(Str("iso", 2, 0), -2),
     News(Str("isotz", 1, 0), 4), News(Str("custom", 1, 0), 4),
     News(Str("bad", 0, 0), 4),
     [stock |-> "O", date |-> Str("iso", 1, 0), pol |-> 4]}

StockRecords == {Bar(d, c) : d \in Days, c \in Closes}

TypeNews == SeqsUpTo(NewsRecords, MaxNews)
TypeStock == SeqsUpTo(StockRecords, MaxBars)

\* the inputs: every news file up to MaxNews records with the stock file of
\* SampleStocks, and every stock file up to MaxBars bars with each news file
\* of SampleNews
SampleStocks == {<<Bar(1, 100), Bar(1, 110), Bar(2, 99)>>}
SampleNews == {<<News(Str("iso", 1, 0), 4), News(Str("iso", 2, 0), -2)>>,
               <<News(Str("isotz", 1, 0), 4)>>}

Init ==
    /\ \/ news_file \in TypeNews /\ stock_file \in SampleStocks
       \/ news_file \in SampleNews /\ stock_file \in TypeStock
    /\ news_df = None
    /\ stock_df = None
    /\ merged_df = None
    /\ out = Msg("none", 0)
    /\ last = Call("none", "none", "none")
    /\ completed = {}

\* ---- load_data
\* lines 41-47: the cleaned strings, then the primary parse
PrimaryParse(file) ==
    LET f == FilterStock(file)
    IN  to_datetime([i \in DOMAIN f |-> f[i].date])

\* lines 52-55: the fallback parser is handed the cell of the column that
\* line 47 has already overwritten with the primary parse's result
Reparsed(col, i) == try_parse_custom_date(col[i])

\* lines 50-64 on the parsed column: nothing when no date is invalid; else
\* the zone is stripped and the invalid cells are reparsed. The .dt accessor of
\* line 61 raises AttributeError on an object column (zoned and zone-free
\* values together), which ends load_data in its except clause
FallbackPass(col) ==
    IF \E i \in DOMAIN col : isna(col[i])
    THEN IF DtypeOf(col) = "object" THEN [raised |-> TRUE, col |-> col]
         ELSE [raised |-> FALSE,
               col |-> [i \in DOMAIN col |->
                  IF isna(col[i]) THEN Reparsed(col, i) ELSE tz_localize_none(col[i])]]
    ELSE [raised |-> FALSE, col |-> col]

NewsRows(file, col) ==
    LET f == FilterStock(file)
    IN  [i \in DOMAIN col |-> [date |-> col[i], pol |-> f[i].pol, raw |-> f[i].date]]

StockRowsRead(file) ==
    [i \in DOMAIN file |-> [date |-> file[i].date, close |-> file[i].close,
                            idx |-> i, ret |-> NaN]]

StockRowsParsed(file) ==
    [i \in DOMAIN file |-> [date |-> parse_single(file[i].date), close |-> file[i].close,
                            idx |-> i, ret |-> NaN]]

load_data ==
    LET col == PrimaryParse(news_file)
        pass == FallbackPass(col)
        fb == pass.col
    IN  IF pass.raised
        THEN /\ news_df' = NewsFrame(NewsRows(news_file, col), "object", FALSE)
             /\ stock_df' = StockFrame(StockRowsRead(stock_file), "str", FALSE)
             /\ out' = Msg("ErrorLoad", 0)
             /\ last' = Call("load_data", "raised", "none")
             /\ UNCHANGED <<news_file, stock_file, merged_df, completed>>
        ELSE /\ news_df' = NewsFrame(NewsRows(news_file, fb), DtypeOf(fb), FALSE)
             /\ stock_df' = StockFrame(StockRowsParsed(stock_file), "naive", FALSE)
             /\ out' = Msg("DebugUnparsed", Cardinality({i \in DOMAIN fb : isna(fb[i])}))
             /\ last' = Call("load_data", "returned", "none")
             /\ completed' = completed \cup {"load_data"}
             /\ UNCHANGED <<news_file, stock_file, merged_df>>

\* ---- analyze_sentiment
\* TextBlob's polarity of the headline is the record's pol
analyze_sentiment ==
    IF news_df = None
    THEN /\ out' = Msg("ErrorSentiment", 0)
         /\ last' = Call("analyze_sentiment", "raised", "none")
         /\ UNCHANGED <<news_file, stock_file, news_df, stock_df, merged_df, completed>>
    ELSE /\ news_df' = [news_df EXCEPT !.sentiment = TRUE]
         /\ out' = Msg("none", 0)
         /\ last' = Call("analyze_sentiment", "returned", "none")
         /\ completed' = completed \cup {"analyze_sentiment"}
         /\ UNCHANGED <<news_file, stock_file, stock_df, merged_df>>

\* ---- aggregate_sentiment
Rank(c) == c.day * Cardinality(Tods) + c.tod

RECURSIVE SortCells(_)
\* the cells of S ascending (groupby sorts its keys)
SortCells(S) ==
    IF S = {} THEN <<>>
    ELSE LET m == CHOOSE c \in S : \A e \in S : Rank(c) <= Rank(e)
         IN  <<m>> \o SortCells(S \ {m})

RECURSIVE SumPol(_, _, _)
\* the sum of pol over the rows i..Len(rows) whose date is key
SumPol(rows, key, i) ==
    IF i > Len(rows) THEN 0
    ELSE (IF rows[i].date = key THEN rows[i].pol ELSE 0) + SumPol(rows, key, i + 1)

\* groupby("date")["sentiment"].mean().reset_index(): one row per distinct value
\* of the date column as load_data left it; NaT keys are dropped
aggregate_sentiment(df) ==
    LET keys == SortCells({df.rows[i].date : i \in {j \in DOMAIN df.rows : ~isna(df.rows[j].date)}})
    IN  [k \in DOMAIN keys |->
            [date |-> keys[k],
             sum |-> SumPol(df.rows, keys[k], 1),
             n |-> Cardinality({i \in DOMAIN df.rows : df.rows[i].date = keys[k]})]]

\* ---- calculate_returns
IsPerm(p, n) == \A i, j \in 1..n : i # j => p[i] # p[j]

\* sort_values("date") with the default kind "quicksort", which is not stable
\* (numpy's introsort swaps rows of equal date once a file is long enough to
\* be partitioned): any ascending order of the rows, ties in any order
SortOrders(rows) ==
    LET n == Len(rows)
    IN  {p \in [1..n -> 1..n] :
            /\ IsPerm(p, n)
            /\ \A i \in 1..n, j \in 1..n : i < j => rows[p[i]].date.day <= rows[p[j]].date.day}

\* Series.pct_change(): no value at position 1, then the change against the
\* row before, kept as numerator and denominator
pct_change(rows) ==
    [i \in DOMAIN rows |->
        [rows[i] EXCEPT !.ret = IF i = 1 THEN NaN
                                 ELSE <<rows[i].close - rows[i - 1].close, rows[i - 1].close>>]]

calculate_returns ==
    IF stock_df = None
    THEN /\ out' = Msg("ErrorReturns", 0)
         /\ last' = Call("calculate_returns", "raised", "none")
         /\ UNCHANGED <<news_file, stock_file, news_df, stock_df, merged_df, completed>>
    ELSE \E p \in SortOrders(stock_df.rows) :
         /\ stock_df' = [stock_df EXCEPT
                !.rows = pct_change([i \in DOMAIN stock_df.rows |-> stock_df.rows[p[i]]]),
                !.daily_return = TRUE]
         /\ out' = Msg("none", 0)
         /\ last' = Call("calculate_returns", "returned", "none")
         /\ completed' = completed \cup {"calculate_returns"}
         /\ UNCHANGED <<news_file, stock_file, news_df, merged_df>>

\* ---- merge_data
\* lines 118, 121: the aggregate, its dates normalized after the grouping
daily_sentiment(df) ==
    LET agg == aggregate_sentiment(df)
    IN  [k \in DOMAIN agg |-> [agg[k] EXCEPT !.date = normalize(agg[k].date)]]

\* line 120
NormalizedStock(df) ==
    [df EXCEPT !.rows = [i \in DOMAIN df.rows |->
                            [df.rows[i] EXCEPT !.date = normalize(df.rows[i].date)]]]

\* the pairs <<i, j>> of a left and a right row with the same date, in the
\* order of the left rows
JoinPairs(left, right) ==
    LET L == Len(left)
        R == Len(right)
        li(k) == ((k - 1) \div R) + 1
        ri(k) == ((k - 1) % R) + 1
        idx == SelectIdx([k \in 1..(L * R) |-> left[li(k)].date = right[ri(k)].date], L * R, 1)
    IN  [m \in DOMAIN idx |-> <<li(idx[m]), ri(idx[m])>>]

\* how="right": the right rows without a partner are kept as well
merge_right(left, right) ==
    LET pairs == JoinPairs(left, right)
        alone == SelectIdx([j \in DOMAIN right |->
                               \A i \in DOMAIN left : left[i].date # right[j].date],
                           Len(right), 1)
    IN  [m \in DOMAIN pairs |->
            [date |-> left[pairs[m][1]].date, sum |-> left[pairs[m][1]].sum,
             n |-> left[pairs[m][1]].n, ret |-> right[pairs[m][2]].ret]]
        \o [m \in DOMAIN alone |->
            [date |-> right[alone[m]].date, sum |-> 0, n |-> 0, ret |-> right[alone[m]].ret]]

\* pd.merge(left, right, on="date", how="inner"): one row per pair of a left
\* and a right row with the same date
merge(left, right) ==
    LET pairs == JoinPairs(left, right)
    IN  [m \in DOMAIN pairs |->
            [date |-> left[pairs[m][1]].date, sum |-> left[pairs[m][1]].sum,
             n |-> left[pairs[m][1]].n, ret |-> right[pairs[m][2]].ret]]

\* pd.merge refuses a zoned key column against a zone-free one when both
\* frames have rows
MergeKeysMismatch(left, right) ==
    /\ Len(left) > 0
    /\ Len(right) > 0
    /\ left[1].date.aware # right[1].date.aware

MergeRaisesBeforeNormalize ==
    \/ news_df = None
    \/ ~news_df.sentiment
    \/ stock_df = None
    \/ stock_df.dtype # "naive"
    \/ news_df.dtype = "object"

merge_data ==
    IF MergeRaisesBeforeNormalize
    THEN /\ out' = Msg("ErrorMerge", 0)
         /\ last' = Call("merge_data", "raised", "none")
         /\ UNCHANGED <<news_file, stock_file, news_df, stock_df, merged_df, completed>>
    ELSE LET left == daily_sentiment(news_df)
             right == NormalizedStock(stock_df)
         IN  IF ~stock_df.daily_return \/ MergeKeysMismatch(left, right.rows)
             THEN /\ stock_df' = right
                  /\ out' = Msg("ErrorMerge", 0)
                  /\ last' = Call("merge_data", "raised", "none")
                  /\ UNCHANGED <<news_file, stock_file, news_df, merged_df, completed>>
             ELSE LET m == merge(left, right.rows)
                  IN  /\ stock_df' = right
                      /\ merged_df' = MergedFrame(m)
                      /\ out' = IF Len(m) = 0 THEN Msg("WarningEmptyMerge", 0)
                                               ELSE Msg("InfoMerged", Len(m))
                      /\ last' = Call("merge_data", "returned", "none")
                      /\ completed' = completed \cup {"merge_data"}
                      /\ UNCHANGED <<news_file, stock_file, news_df>>

\* ---- compute_correlation
\* the pairs with a missing value kept
AllPairs(m) == DOMAIN m

\* Series.corr drops the pairs with a missing value
ValidPairs(m) == {i \in DOMAIN m : m[i].ret # NaN}

SameMean(a, b) == a.sum * b.n = b.sum * a.n
SameReturn(a, b) ==
    \/ a.ret = b.ret
    \/ a.ret # NaN /\ b.ret # NaN /\ a.ret[1] * b.ret[2] = b.ret[1] * a.ret[2]

\* Pearson's coefficient is nan with fewer than two pairs or a constant column
corr(df) ==
    LET m == df.rows
        v == ValidPairs(m)
    IN  IF \/ Cardinality(v) < 2
           \/ \A i, j \in v : SameMean(m[i], m[j])
           \/ \A i, j \in v : SameReturn(m[i], m[j])
        THEN "nan" ELSE "coefficient"

compute_correlation ==
    IF merged_df = None
    THEN /\ out' = Msg("ErrorCorrelation", 0)
         /\ last' = Call("compute_correlation", "raised", "none")
         /\ UNCHANGED <<news_file, stock_file, news_df, stock_df, merged_df, completed>>
    ELSE /\ out' = [tag |-> "InfoCorrelation", n |-> 0, value |-> corr(merged_df)]
         /\ last' = Call("compute_correlation", "returned", corr(merged_df))
         /\ completed' = completed \cup {"compute_correlation"}
         /\ UNCHANGED <<news_file, stock_file, news_df, stock_df, merged_df>>

Next ==
    \/ load_data
    \/ analyze_sentiment
    \/ calculate_returns
    \/ merge_data
    \/ compute_correlation

Spec == Init /\ [][Next]_vars
\* ---- what the claims speak about
Returned(stage) == last.stage = stage /\ last.outcome = "returned"

\* the filtered news records with a valid date, and their calendar dates
ValidNews == {i \in DOMAIN news_df.rows : ~isna(news_df.rows[i].date)}
SentimentDates == {news_df.rows[i].date.day : i \in ValidNews}
StockDates == {stock_file[i].date.day : i \in DOMAIN stock_file}
MergedDates == {merged_df.rows[i].date.day : i \in DOMAIN merged_df.rows}

\* the state in which merge_data finds every stage before it completed
MergeReady ==
    /\ news_df # None
    /\ news_df.sentiment
    /\ news_df.dtype # "object"
    /\ stock_df # None
    /\ stock_df.dtype = "naive"
    /\ stock_df.daily_return

Distinct(rows) == \A i, j \in DOMAIN rows : i # j => rows[i].date # rows[j].date

RECURSIVE SumPolDay(_, _, _)
\* the sum of pol over the valid rows i..Len(rows) on calendar day d
SumPolDay(rows, d, i) ==
    IF i > Len(rows) THEN 0
    ELSE (IF ~isna(rows[i].date) /\ rows[i].date.day = d THEN rows[i].pol ELSE 0)
           + SumPolDay(rows, d, i + 1)

ErrorTags == {"ErrorLoad", "ErrorSentiment", "ErrorReturns", "ErrorMerge", "ErrorCorrelation"}

\* C1: after merge_data has succeeded the dates of merged_df are exactly the
\* calendar dates that both the daily sentiment series and the stock series
\* hold, and the first stock bar, whose return is undefined, is merged too
\* when its date is one of them.
MergedDatesAreIntersection ==
    Returned("merge_data") =>
        /\ MergedDates = SentimentDates \cap StockDates
        /\ \A j \in DOMAIN stock_df.rows :
              (j = 1 /\ stock_df.rows[j].date.day \in SentimentDates) =>
                  \E i \in DOMAIN merged_df.rows :
                      /\ merged_df.rows[i].date.day = stock_df.rows[j].date.day
                      /\ merged_df.rows[i].ret = NaN

\* a merge that kept a shared date, with the undefined first return, and
\* dropped a date only the news has
MergedDatesWitness ==
    /\ Returned("merge_data")
    /\ MergedDates # {}
    /\ SentimentDates \ StockDates # {}
    /\ \E i \in DOMAIN merged_df.rows : merged_df.rows[i].ret = NaN

\* C2: the daily sentiment series merge_data joins has exactly one row per
\* calendar date of the valid filtered records, holding the mean of all the
\* records of that date, whatever their time of day.
OneRowPerCalendarDate ==
    Returned("merge_data") =>
        LET ds == daily_sentiment(news_df)
        IN  /\ {ds[k].date.day : k \in DOMAIN ds} = SentimentDates
            /\ \A d \in SentimentDates :
                  /\ Cardinality({k \in DOMAIN ds : ds[k].date.day = d}) = 1
                  /\ \A k \in DOMAIN ds : ds[k].date.day = d =>
                        /\ ds[k].n = Cardinality({i \in ValidNews : news_df.rows[i].date.day = d})
                        /\ ds[k].sum = SumPolDay(news_df.rows, d, 1)

\* C3: after load_data every record whose raw date is in the fallback format
\* has the date that string denotes, not the not-a-date sentinel.
FallbackFormatParsed ==
    Returned("load_data") =>
        \A i \in DOMAIN news_df.rows :
            news_df.rows[i].raw.kind = "custom" =>
                /\ news_df.rows[i].date.t = "ts"
                /\ news_df.rows[i].date.day = news_df.rows[i].raw.day
                /\ news_df.rows[i].date.tod = news_df.rows[i].raw.tod

\* C4: an unparseable date string does not abort load_data; the record's date
\* is the sentinel and it is in no group of the aggregate.
UnparseableDateTolerated ==
    (\E i \in DOMAIN FilterStock(news_file) : FilterStock(news_file)[i].date.kind = "bad") =>
        /\ last.stage = "load_data" =>
              /\ last.outcome = "returned"
              /\ \A i \in DOMAIN news_df.rows :
                    news_df.rows[i].raw.kind = "bad" => isna(news_df.rows[i].date)
        /\ Returned("merge_data") =>
              LET ds == aggregate_sentiment(news_df)
              IN  \A k \in DOMAIN ds :
                     /\ ~isna(ds[k].date)
                     /\ \A i \in DOMAIN news_df.rows :
                           news_df.rows[i].raw.kind = "bad" => news_df.rows[i].date # ds[k].date

StableSortedReturns ==
    Returned("calculate_returns") =>
        LET r == stock_df.rows
        IN  /\ \A i, j \in DOMAIN r : i < j =>
                  \/ r[i].date.day < r[j].date.day
                  \/ r[i].date.day = r[j].date.day /\ r[i].idx < r[j].idx
            /\ \A i \in DOMAIN r :
                  r[i].ret = IF i = 1 THEN NaN
                             ELSE <<r[i].close - r[i - 1].close, r[i - 1].close>>

\* C7: with no shared date merge_data returns, merged_df has no rows and the
\* empty-merge warning is printed; the success message is printed exactly
\* when merged_df has a row.
EmptyMergeFlagged ==
    (last.stage = "merge_data" /\ MergeReady) =>
        /\ SentimentDates \cap StockDates = {} =>
              /\ last.outcome = "returned"
              /\ Len(merged_df.rows) = 0
              /\ out.tag = "WarningEmptyMerge"
        /\ last.outcome = "returned" =>
              (out.tag = "InfoMerged" <=> Len(merged_df.rows) > 0)

MixedZonesNoError ==
    (\E i, j \in DOMAIN FilterStock(news_file) :
        /\ FilterStock(news_file)[i].date.kind = "isotz"
        /\ FilterStock(news_file)[j].date.kind \in {"iso", "custom"}) =>
        /\ last.stage = "load_data" =>
              /\ last.outcome = "returned"
              /\ \A i \in DOMAIN news_df.rows : ~news_df.rows[i].date.aware
        /\ (last.stage = "merge_data" /\ MergeReady) => last.outcome = "returned"

\* C10: a stage called before the stages it needs have completed raises
\* after an error diagnostic and leaves merged_df as it was, and merged_df is
\* set only once load_data, analyze_sentiment, calculate_returns and
\* merge_data have completed.
PrerequisitesDone(stage) ==
    CASE stage \in {"analyze_sentiment", "calculate_returns"} -> "load_data" \in completed
      [] stage = "merge_data" ->
            {"load_data", "analyze_sentiment", "calculate_returns"} \subseteq completed
      [] stage = "compute_correlation" -> "merge_data" \in completed
      [] OTHER -> TRUE

StageOrderStep ==
    /\ ~PrerequisitesDone(last'.stage) =>
          /\ last'.outcome = "raised"
          /\ out'.tag \in ErrorTags
          /\ merged_df' = merged_df
    /\ merged_df' # None =>
          {"load_data", "analyze_sentiment", "calculate_returns", "merge_data"}
              \subseteq completed'

StageOrderEnforced == [][StageOrderStep]_vars
====
